---- MODULE Spec2Model ----
(***************************************************************************)
(* Model of the DaCirco job manager (da_circo_k8s_scheduler.py), its       *)
(* Kubernetes backend (da_circo_k8s_manager.py) and the request handlers   *)
(* of da_circo_api.py.                                                     *)
(*                                                                         *)
(* One Task object is created per submission and runs Task.run in its own  *)
(* thread.  The request handlers are `async def` functions without any     *)
(* await: they run one at a time on the event loop, but every worker       *)
(* thread interleaves with them statement by statement.                    *)
(*                                                                         *)
(* The polling helpers (wait_for_pod_creation, wait_for_job_completion,    *)
(* wait_for_ping, wait_for_ssh_to_be_ready) and VirtualMachine             *)
(* (da_circo_vm_manager.py) are modelled on their own, in the variable     *)
(* helper, under WaitSpec and VMSpec.                                      *)
(***************************************************************************)
EXTENDS Integers, Sequences, FiniteSets, TLC

\* ---------------------------------------------------------------- bounds
\* number of submissions (Task objects) explored
MaxTasks == 2
\* first clock reading, in hundredths of a second (1.00 s)
T0 == 100
\* last clock reading explored
MaxTime == 102
\* number of requests explored whose handler loops over the registry
\* (GET /jobs, GET /stats)
MaxQueries == 1
\* number of submissions explored together with all four query handlers
MaxListed == 1

\* ------------------------------------------------- da_circo_const.State
WAITING == "Waiting"
STARTED == "Started"
COMPLETED == "Completed"
ERROR == "Error"

State == {WAITING, STARTED, COMPLETED, ERROR}

\* ------------------------------------------------------------- the clock
\* Readings of time.time() are non-decreasing; two successive readings may
\* be equal (clock resolution).
Times == T0..MaxTime

\* a reading made when the last one was t
Readings(t) == {u \in {t, t + 1} : u <= MaxTime}

\* getID: str(time.time()) with the "." removed.  A reading t counts
\* hundredths: str() prints the shortest decimal, so a reading with a zero
\* last digit prints one fractional digit ("1.0", "1.1") and any other
\* prints two ("1.01").  The digit string has no leading zero (t >= 100)
\* and is represented by its numeric value.
getID(t) == IF t % 10 = 0 THEN t \div 10 ELSE t

\* the ids the model can mint
Ids == {getID(t) : t \in Times}

\* pod_name = 'tst-transcode'+str(self.id_job): the prefix and the digits
pod_name(id_job) == <<"tst-transcode", id_job>>

\* the pod names of the ids the model can mint
PodNames == {pod_name(id) : id \in Ids}

\* ------------------------------------------------------------ the backend
\* phase of the pod of each name; "Absent" when no such pod exists
Phase == {"Absent", "Pending", "Running", "Succeeded", "Failed"}

\* the backend calls execute_container_in_pod makes
Calls == {"create", "read", "attach", "delete"}

VARIABLES
    now,                 \* the last reading of time.time()
    transcode_requests,  \* JobManager.transcode_requests: the dict, as the
                         \* sequence of its (key, Task) items in dict order
    tasks,               \* the Task objects, in creation order
    thread,              \* the thread of each Task: position in Task.run,
                         \* the call that raised, the backend calls made
    pods,                \* the cluster: phase of the pod of each name
    rd,                  \* the request handler running on the event loop:
                         \* its position and its local variables
                         \* (list_task: the Task each entry of
                         \* list_duration was read from)
    reply,               \* the last response of the API
    served,              \* the number of GET /jobs and GET /stats received
    hist,                \* history: the contents the registry has had since
                         \* the running GET /jobs or GET /stats began
    helper               \* a call of one of the backend's helper functions
                         \* (wait_for_*, VirtualMachine.delete): its
                         \* arguments, its locals and the unit it acts on

vars ==
    <<now, transcode_requests, tasks, thread, pods, rd, reply, served, hist,
      helper>>

TaskIds == 1..MaxTasks

Live == 1..Len(tasks)

Idle ==
    [op |-> "idle", i |-> 0, step |-> 0, st |-> WAITING, ret |-> <<>>,
     counter |-> 0, counter_error |-> 0, counter_completed |-> 0,
     list_duration |-> <<>>, list_task |-> <<>>]

NoReply == [op |-> "none", code |-> 0, val |-> <<>>]

\* no helper function is being called
NoCall == [fn |-> "none"]

\* ---------------------------------------------------------- the registry
\* index of key id in the dict, 0 when absent
IndexOf(reg, id) ==
    IF \E k \in 1..Len(reg) : reg[k].id = id
    THEN CHOOSE k \in 1..Len(reg) : reg[k].id = id
    ELSE 0

\* id in self.transcode_requests.keys()
HasKey(reg, id) == IndexOf(reg, id) # 0

\* self.transcode_requests[id]
Lookup(reg, id) == reg[IndexOf(reg, id)].task

\* self.transcode_requests[id] = t: a present key keeps its place and gets
\* the new value, a new key goes last
Put(reg, id, t) ==
    IF HasKey(reg, id)
    THEN [reg EXCEPT ![IndexOf(reg, id)].task = t]
    ELSE Append(reg, [id |-> id, task |-> t])

Keys(reg) == {reg[k].id : k \in 1..Len(reg)}

\* ------------------------------------------------------------------ Init
Init ==
    /\ now = T0
    /\ transcode_requests = <<>>
    /\ tasks = <<>>
    /\ thread = <<>>
    /\ pods = [n \in PodNames |-> "Absent"]
    /\ rd = Idle
    /\ reply = NoReply
    /\ served = 0
    /\ hist = {}
    /\ helper = NoCall

\* ------------------------------------------------- JobManager.newJob
\* Task.__init__: the fields of a new Task; ct is its reading of the clock
NewTask(id_job, bitrate, speed, ct) ==
    [id_job |-> id_job, bitrate |-> bitrate, speed |-> speed,
     state |-> WAITING, duration |-> 0, creation_time |-> ct]

\* a thread at the top of Task.run
NewThread == [pc |-> "connect", raised |-> "none", calls |-> {}]

\* a variant that runs the Task in the caller (run() instead of start()):
\* it returns with the workload done
newJob_blocking(id_job, bitrate, speed, ct) ==
    /\ tasks' = Append(tasks, [NewTask(id_job, bitrate, speed, ct) EXCEPT
                                  !.state = COMPLETED, !.duration = 1])
    /\ transcode_requests' = Put(transcode_requests, id_job, Len(tasks) + 1)
    /\ thread' = Append(thread, [pc |-> "done", raised |-> "none",
                                 calls |-> Calls])
    /\ now' = ct

\* newJob: build the Task, store it under id_job, start its thread
newJob(id_job, bitrate, speed, ct) ==
    /\ tasks' = Append(tasks, NewTask(id_job, bitrate, speed, ct))
    /\ transcode_requests' = Put(transcode_requests, id_job, Len(tasks) + 1)
    /\ thread' = Append(thread, NewThread)
    /\ now' = ct

\* the Job model of da_circo_const.py accepts the body of a POST /jobs:
\* bitrate is declared with gt = 0 (its range [500, 8000] only in the
\* description) and speed is any str
JobValid(bitrate, speed) == bitrate > 0

\* the request bodies explored: bitrates below, inside and above the
\* documented range [500, 8000], the two documented speeds and another one
Bitrates == {0, 7000, 9000}

Speeds == {"ultrafast", "fast", "slow"}

\* the body given as example of POST /jobs
ExampleJob == [bitrate |-> 7000, speed |-> "ultrafast"]

\* POST /jobs with a body the Job model accepts:
\* id_job = mngr.getID(); mngr.newJob(id_job, ...); return id_job (201)
post_jobs(bitrate, speed) ==
    /\ rd.op = "idle"
    /\ JobValid(bitrate, speed)
    /\ Len(tasks) < MaxTasks
    /\ \E t1 \in Readings(now) : \E ct \in Readings(t1) :
          /\ ct < MaxTime
          /\ newJob(getID(t1), bitrate, speed, ct)
          /\ reply' = [op |-> "create_job", code |-> 201, val |-> getID(t1)]
    /\ UNCHANGED <<pods, rd, served, hist, helper>>

\* POST /jobs with a body the Job model refuses: the handler is not called
\* and the client gets a validation error (422)
post_jobs_refused(bitrate, speed) ==
    /\ rd.op = "idle"
    /\ ~JobValid(bitrate, speed)
    /\ reply' = [op |-> "create_job", code |-> 422, val |-> 0]
    /\ UNCHANGED <<now, transcode_requests, tasks, thread, pods, rd, served, hist, helper>>

\* POST /jobs with the example body
create_job == post_jobs(ExampleJob.bitrate, ExampleJob.speed)

\* ------------------------------------------------------------ Task.run
\* an exception leaves Task.run: the thread ends where the call raised
Raise(i, call) ==
    thread' = [thread EXCEPT ![i].pc = "dead", ![i].raised = call,
                             ![i].calls = @ \cup ({call} \cap Calls)]

\* the call returned: go on at pc p
Goto(i, call, p) ==
    thread' = [thread EXCEPT ![i].pc = p,
                             ![i].calls = @ \cup ({call} \cap Calls)]

\* a variant that names every pod alike (the prefix and a fixed suffix)
PodOf_fixed(i) == pod_name(getID(T0))

\* the name of the pod of Task i
PodOf(i) == pod_name(tasks[i].id_job)

\* the content of the registry: the state of the Task under each key
Snapshot ==
    [k \in 1..Len(transcode_requests) |->
        tasks[transcode_requests[k].task].state]

\* a write of task.state while a handler loops over the registry gives the
\* registry a new content
Observe == hist' = IF rd.op = "idle" THEN {} ELSE hist \cup {Snapshot'}

\* a variant whose failure branch writes the state of every Task (a class
\* attribute instead of an instance attribute)
run_connect_shared(i) ==
    /\ thread[i].pc = "connect"
    /\ \/ /\ tasks' = [k \in 1..Len(tasks) |->
                          [tasks[k] EXCEPT !.state = ERROR]]
          /\ Goto(i, "connect", "done")
       \/ /\ Goto(i, "connect", "resolve")
          /\ UNCHANGED tasks
    /\ UNCHANGED <<now, transcode_requests, pods, rd, reply, served, helper>>
    /\ Observe

\* ks_manager = K8sManager(); except: self.state = ERROR; return False
run_connect(i) ==
    /\ thread[i].pc = "connect"
    /\ \/ /\ tasks' = [tasks EXCEPT ![i].state = ERROR]
          /\ Goto(i, "connect", "done")
       \/ /\ Goto(i, "connect", "resolve")
          /\ UNCHANGED tasks
    /\ UNCHANGED <<now, transcode_requests, pods, rd, reply, served, helper>>
    /\ Observe

\* a variant of a Task.run without the `return False` of the except block:
\* after a failed connection the run goes on
run_resolve_noreturn(i) ==
    /\ \/ thread[i].pc = "resolve"
       \/ thread[i].pc = "done" /\ tasks[i].state = ERROR
    /\ \/ Raise(i, "resolve")
       \/ Goto(i, "resolve", "create")
    /\ UNCHANGED <<now, transcode_requests, tasks, pods, rd, reply, served,
                   hist, helper>>

\* swift_add = socket.gethostbyname('controller')
run_resolve(i) ==
    /\ thread[i].pc = "resolve"
    /\ \/ Raise(i, "resolve")
       \/ Goto(i, "resolve", "create")
    /\ UNCHANGED <<now, transcode_requests, tasks, pods, rd, reply, served, hist, helper>>

\* core_api.create_namespaced_pod: raises when the cluster rejects the pod,
\* as it does when a pod of that name exists
create_namespaced_pod(i) ==
    /\ thread[i].pc = "create"
    /\ \/ /\ Raise(i, "create")
          /\ UNCHANGED pods
       \/ /\ pods[PodOf(i)] = "Absent"
          /\ pods' = [pods EXCEPT ![PodOf(i)] = "Pending"]
          /\ Goto(i, "create", "read")
    /\ UNCHANGED <<now, transcode_requests, tasks, rd, reply, served, hist, helper>>

\* a variant that reads the pod once and goes on whatever its phase
read_namespaced_pod_once(i) ==
    /\ thread[i].pc = "read"
    /\ \/ Raise(i, "read")
       \/ /\ pods[PodOf(i)] # "Absent"
          /\ Goto(i, "read", "attach")
    /\ UNCHANGED <<now, transcode_requests, tasks, pods, rd, reply, served,
                   hist, helper>>

\* the `while True` loop: resp = core_api.read_namespaced_pod(...);
\* leave the loop when resp.status.phase != 'Pending'
read_namespaced_pod(i) ==
    /\ thread[i].pc = "read"
    /\ \/ Raise(i, "read")
       \/ /\ pods[PodOf(i)] = "Pending"
          /\ Goto(i, "read", "sleep")
       \/ /\ pods[PodOf(i)] \notin {"Absent", "Pending"}
          /\ Goto(i, "read", "attach")
    /\ UNCHANGED <<now, transcode_requests, tasks, pods, rd, reply, served, hist, helper>>

\* time.sleep(1), then the loop reads again
sleep(i) ==
    /\ thread[i].pc = "sleep"
    /\ Goto(i, "sleep", "read")
    /\ UNCHANGED <<now, transcode_requests, tasks, pods, rd, reply, served, hist, helper>>

\* stream(core_api.connect_get_namespaced_pod_attach, ...): the call is made
attach(i) ==
    /\ thread[i].pc = "attach"
    /\ \/ Raise(i, "attach")
       \/ /\ pods[PodOf(i)] # "Absent"
          /\ Goto(i, "attach", "attached")
    /\ UNCHANGED <<now, transcode_requests, tasks, pods, rd, reply, served, hist, helper>>

\* stream(...) blocks until the container has ended, or the connection fails
attach_return(i) ==
    /\ thread[i].pc = "attached"
    /\ \/ Raise(i, "attach")
       \/ /\ pods[PodOf(i)] \in {"Succeeded", "Failed", "Absent"}
          /\ Goto(i, "attach", "delete")
    /\ UNCHANGED <<now, transcode_requests, tasks, pods, rd, reply, served, hist, helper>>

\* core_api.delete_namespaced_pod(...), then execute_container_in_pod returns
delete_namespaced_pod(i) ==
    /\ thread[i].pc = "delete"
    /\ \/ /\ Raise(i, "delete")
          /\ UNCHANGED pods
       \/ /\ pods[PodOf(i)] # "Absent"
          /\ pods' = [pods EXCEPT ![PodOf(i)] = "Absent"]
          /\ Goto(i, "delete", "set_state")
    /\ UNCHANGED <<now, transcode_requests, tasks, rd, reply, served, hist, helper>>

\* self.state = state.COMPLETED
run_set_state(i) ==
    /\ thread[i].pc = "set_state"
    /\ tasks' = [tasks EXCEPT ![i].state = COMPLETED]
    /\ Goto(i, "set_state", "set_duration")
    /\ UNCHANGED <<now, transcode_requests, pods, rd, reply, served, helper>>
    /\ Observe

\* self.duration = time.time() - self.creation_time; the clock has moved
\* since the Task was built
run_set_duration(i) ==
    /\ thread[i].pc = "set_duration"
    /\ \E t \in Readings(now) :
          /\ t > tasks[i].creation_time
          /\ now' = t
          /\ tasks' = [tasks EXCEPT ![i].duration = t - tasks[i].creation_time]
    /\ Goto(i, "set_duration", "done")
    /\ UNCHANGED <<transcode_requests, pods, rd, reply, served, hist, helper>>

\* a variant with one worker at a time: a Task runs only when the Tasks
\* created before it have ended
run_in_turn(i) ==
    /\ i \in Live
    /\ \A k \in 1..(i - 1) : thread[k].pc \in {"done", "dead"}
    /\ \/ run_connect(i)
       \/ run_resolve(i)
       \/ create_namespaced_pod(i)
       \/ read_namespaced_pod(i)
       \/ sleep(i)
       \/ attach(i)
       \/ attach_return(i)
       \/ delete_namespaced_pod(i)
       \/ run_set_state(i)
       \/ run_set_duration(i)

\* one statement of Task.run of Task i
run(i) ==
    /\ i \in Live
    /\ \/ run_connect(i)
       \/ run_resolve(i)
       \/ create_namespaced_pod(i)
       \/ read_namespaced_pod(i)
       \/ sleep(i)
       \/ attach(i)
       \/ attach_return(i)
       \/ delete_namespaced_pod(i)
       \/ run_set_state(i)
       \/ run_set_duration(i)

\* ------------------------------------------------------------ the cluster
\* the cluster schedules a pending pod and starts its container
pod_starts(n) ==
    /\ pods[n] = "Pending"
    /\ pods' = [pods EXCEPT ![n] = "Running"]
    /\ UNCHANGED <<now, transcode_requests, tasks, thread, rd, reply, served, hist, helper>>

\* the container (transcode.py) exits: restartPolicy Never, so the pod ends
pod_ends(n) ==
    /\ pods[n] = "Running"
    /\ \E ph \in {"Succeeded", "Failed"} : pods' = [pods EXCEPT ![n] = ph]
    /\ UNCHANGED <<now, transcode_requests, tasks, thread, rd, reply, served, hist, helper>>

\* ------------------------------------------------------ the query handlers
Handling(op) == [Idle EXCEPT !.op = op, !.i = 1, !.step = "state"]

\* the Task the loop of the running handler is at
Cur == transcode_requests[rd.i].task

\* ret[j] = d, then the next key of the dict
Emit(d) ==
    rd' = [rd EXCEPT !.ret = Append(@, [id |-> transcode_requests[rd.i].id,
                                        d |-> d]),
                     !.i = @ + 1, !.step = "state"]

\* GET /jobs calls mngr.getAllJobs(): ret = {}
getAllJobs_begin ==
    /\ rd.op = "idle"
    /\ served < MaxQueries
    /\ served' = served + 1
    /\ rd' = Handling("getAllJobs")
    /\ hist' = {Snapshot}
    /\ UNCHANGED <<now, transcode_requests, tasks, thread, pods, reply, helper>>

\* d['state'] = task.state
getAllJobs_state ==
    /\ rd.op = "getAllJobs" /\ rd.step = "state"
    /\ rd.i <= Len(transcode_requests)
    /\ rd' = [rd EXCEPT !.st = tasks[Cur].state, !.step = "test"]
    /\ UNCHANGED <<now, transcode_requests, tasks, thread, pods, reply, served, hist, helper>>

\* if task.state == state.COMPLETED: a second read of the state; when it
\* is not Completed the entry has no duration
getAllJobs_test ==
    /\ rd.op = "getAllJobs" /\ rd.step = "test"
    /\ IF tasks[Cur].state = COMPLETED
       THEN rd' = [rd EXCEPT !.step = "duration"]
       ELSE Emit([state |-> rd.st])
    /\ UNCHANGED <<now, transcode_requests, tasks, thread, pods, reply, served, hist, helper>>

\* d['duration'] = task.duration
getAllJobs_duration ==
    /\ rd.op = "getAllJobs" /\ rd.step = "duration"
    /\ Emit([state |-> rd.st, duration |-> tasks[Cur].duration])
    /\ UNCHANGED <<now, transcode_requests, tasks, thread, pods, reply, served, hist, helper>>

\* return ret
getAllJobs_return ==
    /\ rd.op = "getAllJobs" /\ rd.step = "state"
    /\ rd.i > Len(transcode_requests)
    /\ reply' = [op |-> "getAllJobs", code |-> 200, val |-> rd.ret]
    /\ rd' = Idle
    /\ hist' = {}
    /\ UNCHANGED <<now, transcode_requests, tasks, thread, pods, served, helper>>

getAllJobs ==
    \/ getAllJobs_begin
    \/ getAllJobs_state
    \/ getAllJobs_test
    \/ getAllJobs_duration
    \/ getAllJobs_return

\* a variant without the membership test: indexing the dict with an absent
\* key raises KeyError and the request fails (500)
getStateJob_unchecked(id_job) ==
    /\ rd.op = "idle"
    /\ reply' = [op |-> "getStateJob", arg |-> id_job,
                 code |-> IF HasKey(transcode_requests, id_job)
                          THEN 200 ELSE 500,
                 val |-> IF HasKey(transcode_requests, id_job)
                         THEN [state |-> tasks[Lookup(transcode_requests,
                                                      id_job)].state]
                         ELSE <<>>]
    /\ UNCHANGED <<now, transcode_requests, tasks, thread, pods, rd, served, hist, helper>>

\* GET /jobs/{jobId}/state: {"state": task.state} when the key is present,
\* {} otherwise
getStateJob(id_job) ==
    /\ rd.op = "idle"
    /\ reply' = [op |-> "getStateJob", arg |-> id_job, code |-> 200,
                 val |-> IF HasKey(transcode_requests, id_job)
                         THEN [state |-> tasks[Lookup(transcode_requests,
                                                      id_job)].state]
                         ELSE <<>>]
    /\ UNCHANGED <<now, transcode_requests, tasks, thread, pods, rd, served, hist, helper>>

\* Task.__str__: "task %s for movie %s at bitrate %d and speed %s"
str_task(t) == <<tasks[t].id_job, tasks[t].bitrate, tasks[t].speed>>

\* a variant that takes the record out of the dict as it answers
\* (transcode_requests.pop(id_job))
getJob_pop(id_job) ==
    /\ rd.op = "idle"
    /\ reply' = [op |-> "getJob", arg |-> id_job, code |-> 200,
                 val |-> IF HasKey(transcode_requests, id_job)
                         THEN [job |-> str_task(Lookup(transcode_requests,
                                                      id_job))]
                         ELSE <<>>]
    /\ transcode_requests' =
          SelectSeq(transcode_requests, LAMBDA e : e.id # id_job)
    /\ UNCHANGED <<now, tasks, thread, pods, rd, served, hist, helper>>

\* GET /jobs/{jobId}: {"job": str(task)} when the key is present, {}
\* otherwise
getJob(id_job) ==
    /\ rd.op = "idle"
    /\ reply' = [op |-> "getJob", arg |-> id_job, code |-> 200,
                 val |-> IF HasKey(transcode_requests, id_job)
                         THEN [job |-> str_task(Lookup(transcode_requests,
                                                      id_job))]
                         ELSE <<>>]
    /\ UNCHANGED <<now, transcode_requests, tasks, thread, pods, rd, served, hist, helper>>

\* --------------------------------------------------------- specifications
Workers == \E i \in TaskIds : run(i)

Cluster == \E n \in PodNames : pod_starts(n) \/ pod_ends(n)

Next == create_job \/ Workers \/ Cluster

\* the job manager, its workers and the cluster
Spec == Init /\ [][Next]_vars

\* ------------------------------------------------------------ GET /stats
\* the sum of the entries of a list
RECURSIVE Sum(_)
Sum(l) == IF l = <<>> THEN 0 ELSE Head(l) + Sum(Tail(l))

\* np.percentile(np.array(l), 95) of a non-empty list, in hundredths of the
\* unit of the entries: numpy sorts the list and interpolates linearly
\* between the entries around rank 0.95 * (n - 1)
Percentile95(l) ==
    LET a == SortSeq(l, LAMBDA x, y : x < y)
        n == Len(a)
        rank == 95 * (n - 1)
        lo == (rank \div 100) + 1
        hi == IF lo < n THEN lo + 1 ELSE lo
    IN  100 * a[lo] + (rank % 100) * (a[hi] - a[lo])

\* np.average(np.array(l)) of a non-empty list, as the fraction sum / n
Average(l) == <<Sum(l), Len(l)>>

\* the loop of get_stats goes to the next key of the dict
NextKey(r) == [r EXCEPT !.i = @ + 1, !.step = "state"]

\* ret = {}; the counters at 0; list_duration = list()
get_stats_begin ==
    /\ rd.op = "idle"
    /\ served < MaxQueries
    /\ served' = served + 1
    /\ rd' = Handling("get_stats")
    /\ hist' = {Snapshot}
    /\ UNCHANGED <<now, transcode_requests, tasks, thread, pods, reply, helper>>

\* counter = counter + 1; if task.state == State.ERROR: counter_error + 1
get_stats_state ==
    /\ rd.op = "get_stats" /\ rd.step = "state"
    /\ rd.i <= Len(transcode_requests)
    /\ rd' = IF tasks[Cur].state = ERROR
             THEN NextKey([rd EXCEPT !.counter = @ + 1,
                                     !.counter_error = @ + 1])
             ELSE [rd EXCEPT !.counter = @ + 1, !.step = "test"]
    /\ UNCHANGED <<now, transcode_requests, tasks, thread, pods, reply, served, hist, helper>>

\* elif task.state == State.COMPLETED: counter_completed += 1
get_stats_test ==
    /\ rd.op = "get_stats" /\ rd.step = "test"
    /\ rd' = IF tasks[Cur].state = COMPLETED
             THEN [rd EXCEPT !.counter_completed = @ + 1,
                             !.step = "duration"]
             ELSE NextKey(rd)
    /\ UNCHANGED <<now, transcode_requests, tasks, thread, pods, reply, served, hist, helper>>

\* list_duration.append(task.duration)
get_stats_duration ==
    /\ rd.op = "get_stats" /\ rd.step = "duration"
    /\ rd' = NextKey([rd EXCEPT
                         !.list_duration = Append(@, tasks[Cur].duration),
                         !.list_task = Append(@, Cur)])
    /\ UNCHANGED <<now, transcode_requests, tasks, thread, pods, reply, served, hist, helper>>

\* the result of get_stats after its loop: percentile and average are 0
\* when nothing was counted Completed; the ratio divides by counter
StatsOf(r) ==
    [ratio |-> <<r.counter_completed, r.counter>>,
     p95 |-> IF r.counter_completed = 0 THEN 0
             ELSE Percentile95(r.list_duration),
     aver |-> IF r.counter_completed = 0 THEN <<0, 1>>
              ELSE Average(r.list_duration)]

\* the end of get_stats: counter_completed/counter raises
\* ZeroDivisionError when the registry is empty, else the dict is returned
get_stats_return ==
    /\ rd.op = "get_stats" /\ rd.step = "state"
    /\ rd.i > Len(transcode_requests)
    /\ reply' = IF rd.counter = 0
                THEN [op |-> "get_stats", code |-> 500,
                      val |-> [error |-> "ZeroDivisionError"]]
                ELSE [op |-> "get_stats", code |-> 200, val |-> StatsOf(rd)]
    /\ rd' = Idle
    /\ hist' = {}
    /\ UNCHANGED <<now, transcode_requests, tasks, thread, pods, served, helper>>

get_stats ==
    \/ get_stats_begin
    \/ get_stats_state
    \/ get_stats_test
    \/ get_stats_duration
    \/ get_stats_return

\* the lookups of one job
Lookups == \E id \in Ids : getStateJob(id) \/ getJob(id)

Queries == getAllJobs \/ get_stats \/ Lookups

NextQuery == Next \/ Lookups

\* the job manager with the lookups of one job
QuerySpec == Init /\ [][NextQuery]_vars

NextApi == Next \/ Queries

\* the same with the query handlers of the API
ApiSpec == Init /\ [][NextApi]_vars

\* POST /jobs with the example body, as long as few jobs are registered
create_job_listed == Len(tasks) < MaxListed /\ create_job

NextRead == create_job_listed \/ Workers \/ Cluster \/ Queries

\* a small registry with its workers and every query handler
ReadSpec == Init /\ [][NextRead]_vars

\* POST /jobs with any of the bodies explored
Submit ==
    \E b \in Bitrates : \E sp \in Speeds :
       post_jobs(b, sp) \/ post_jobs_refused(b, sp)

NextSubmit == Submit \/ Workers \/ Cluster

\* the job manager with submissions of any body
SubmitSpec == Init /\ [][NextSubmit]_vars

\* every started thread keeps running
Fairness == \A i \in TaskIds : WF_vars(run(i))

FairSpec == Spec /\ Fairness

\* ------------------------------------------------------------- the claims
Terminal == {COMPLETED, ERROR}

Polling == {"read", "sleep"}

\* C1: a job's state changes only along Waiting->Started, Started->Completed
\* or Started->Error.
C1_ForwardTransitions ==
    [][\A i \in Live :
          tasks'[i].state # tasks[i].state =>
             <<tasks[i].state, tasks'[i].state>> \in
                {<<WAITING, STARTED>>, <<STARTED, COMPLETED>>,
                 <<STARTED, ERROR>>}]_vars

\* C2: in every state, a record's duration is populated (no longer the 0 it
\* is built with) if and only if its state is Completed.
C2_DurationIffCompleted ==
    \A i \in Live : (tasks[i].duration # 0) <=> (tasks[i].state = COMPLETED)

\* C3: whenever getAllJobs has read state Completed for a job, the duration
\* it has read for that job is the job's final duration.
C3_StateDurationTogether ==
    \A k \in 1..Len(rd.ret) :
       LET e == rd.ret[k]
           t == Lookup(transcode_requests, e.id)
       IN  (e.d.state = COMPLETED /\ thread[t].pc = "done") =>
              e.d.duration = tasks[t].duration

\* C4: once a job's state is Completed or Error, no step changes its state
\* or its duration.
C4_TerminalFrozen ==
    [][\A i \in Live :
          tasks[i].state \in Terminal =>
             /\ tasks'[i].state = tasks[i].state
             /\ tasks'[i].duration = tasks[i].duration]_vars

\* C5: when the pod-creation call raises, the job is in state Error and
\* neither the readiness read nor the attach call was made for it.
C5_ProvisionRejected ==
    \A i \in Live :
       thread[i].raised = "create" =>
          /\ tasks[i].state = ERROR
          /\ thread[i].calls \cap {"read", "attach"} = {}

\* C6: the readiness polling of a job always stops: the worker never polls
\* indefinitely, also when the pod never leaves Pending.
C6_PollingStops ==
    \A i \in TaskIds :
       (i \in Live /\ thread[i].pc \in Polling)
          ~> (i \in Live /\ thread[i].pc \notin Polling)

\* C7: when resolving the controller address, the readiness read or the
\* attach call raises, the job is in state Error once its worker has stopped.
C7_BackendFailure ==
    \A i \in Live :
       thread[i].raised \in {"resolve", "read", "attach"} =>
          tasks[i].state = ERROR

\* C8: when the workload has finished and the pod deletion raises, the job
\* is Completed with its duration set.
C8_TeardownBestEffort ==
    \A i \in Live :
       thread[i].raised = "delete" =>
          tasks[i].state = COMPLETED /\ tasks[i].duration # 0

\* C9: a step of the worker of job a, a backend failure included, leaves
\* every other job's record, the registry and the Task list unchanged, and
\* leaves the request handler where it was (no request is held up or lost).
C9_JobIsolation ==
    [][\A a \in Live :
          thread'[a] # thread[a] =>
             /\ \A b \in Live \ {a} : tasks'[b] = tasks[b]
             /\ transcode_requests' = transcode_requests
             /\ Len(tasks') = Len(tasks)
             /\ rd' = rd /\ reply' = reply]_vars

\* a worker has died on a backend failure, its record is untouched, and
\* another job has run to Completed
C9_Witness ==
    \E a \in Live : \E b \in Live \ {a} :
       /\ thread[a].pc = "dead" /\ tasks[a].state = WAITING
       /\ thread[b].pc = "done" /\ tasks[b].state = COMPLETED
       /\ HasKey(transcode_requests, tasks[b].id_job)

\* C10: a submission returns with the record stored and Waiting and the
\* worker started at the top of Task.run, with no backend call made for the
\* job and no pod or other worker having moved; and it can be made whatever
\* the workers and the cluster are doing.
C10_SubmitAsync ==
    /\ [][Len(tasks') > Len(tasks) =>
             LET n == Len(tasks')
             IN  /\ tasks'[n].state = WAITING
                 /\ thread'[n] = NewThread
                 /\ Lookup(transcode_requests', tasks'[n].id_job) = n
                 /\ reply'.op = "create_job" /\ reply'.code = 201
                 /\ reply'.val = tasks'[n].id_job
                 /\ pods' = pods
                 /\ \A k \in Live : thread'[k] = thread[k]]_vars
    /\ [](rd.op = "idle" /\ Len(tasks) < MaxTasks /\ now < MaxTime
             => ENABLED create_job)

\* a submission has returned, its job Waiting with no backend call made,
\* while an earlier job is still polling for its pod
C10_Witness ==
    \E i \in Live : \E k \in Live \ {i} :
       /\ reply.op = "create_job" /\ reply.val = tasks[i].id_job
       /\ tasks[i].state = WAITING /\ thread[i] = NewThread
       /\ k < i /\ thread[k].pc = "sleep" /\ pods[PodOf(k)] = "Pending"

\* C11: every job stored by newJob is driven to a terminal state: once its
\* worker has stopped (returned or died), the job is Completed or Error.
C11_WorkerEndsTerminal ==
    \A i \in Live :
       thread[i].pc \in {"done", "dead"} => tasks[i].state \in Terminal

\* C13: any two submissions get distinct ids, so N submissions yield N
\* distinct registry keys.
C13_UniqueIds ==
    /\ \A i \in Live : \A k \in Live :
          i # k => tasks[i].id_job # tasks[k].id_job
    /\ Cardinality(Keys(transcode_requests)) = Len(tasks)

\* C14: the registry is append-only and its records are never replaced: no
\* step removes an item or changes the Task stored under a key.
C14_AppendOnly ==
    [][/\ Len(transcode_requests') >= Len(transcode_requests)
       /\ \A k \in 1..Len(transcode_requests) :
             transcode_requests'[k] = transcode_requests[k]]_vars

\* the parameters newJob documents: bitrate in [500, 8000], speed in
\* {"ultrafast", "fast"}
ValidParams(bitrate, speed) ==
    bitrate \in 500..8000 /\ speed \in {"ultrafast", "fast"}

\* C12: a submission with a bitrate outside [500, 8000] or a speed other
\* than ultrafast/fast is rejected: no record with such parameters is ever
\* in the registry and no worker runs for one.
C12_InvalidRejected ==
    \A i \in Live : ValidParams(tasks[i].bitrate, tasks[i].speed)

\* the reply is that of a lookup of one job
IsLookup(r) == r.op \in {"getJob", "getStateJob"}

CompletedJobs ==
    {k \in 1..Len(transcode_requests) :
        tasks[transcode_requests[k].task].state = COMPLETED}

\* C16: stats never fails; when it counted no Completed job (the empty
\* registry included) it answers a ratio with p95 = mean = 0.
C16_StatsNoCompleted ==
    reply.op = "get_stats" =>
       /\ reply.code = 200
       /\ reply.val.ratio[1] = 0 =>
             reply.val.p95 = 0 /\ reply.val.aver[1] = 0

\* C17: stats always reports a ratio, that of the jobs counted Completed
\* (none that is not Completed) to all the jobs of the registry, in [0, 1].
C17_CompletedRatio ==
    reply.op = "get_stats" =>
       /\ DOMAIN reply.val = {"ratio", "p95", "aver"}
       /\ reply.val.ratio[2] = Len(transcode_requests)
       /\ reply.val.ratio[2] > 0
       /\ reply.val.ratio[1] <= Cardinality(CompletedJobs)
       /\ reply.val.ratio[1] <= reply.val.ratio[2]

\* C18: the durations stats collects are, one for one, the final durations
\* of the jobs it counted Completed.
C18_DurationsOfCompleted ==
    rd.op = "get_stats" =>
       /\ Len(rd.list_duration) <= rd.counter_completed
       /\ \A k \in 1..Len(rd.list_duration) :
             LET t == rd.list_task[k]
             IN  /\ tasks[t].state = COMPLETED
                 /\ thread[t].pc = "done" =>
                       rd.list_duration[k] = tasks[t].duration

\* C19: every entry getAllJobs builds has a duration exactly when its state
\* is Completed.
C19_DurationWhereCompleted ==
    \A k \in 1..Len(rd.ret) :
       ("duration" \in DOMAIN rd.ret[k].d) <=>
          (rd.ret[k].d.state = COMPLETED)

\* the number of jobs in state st in a content of the registry
CountOf(S, st) == Cardinality({k \in 1..Len(S) : S[k] = st})

\* C20: the states GET /jobs is about to return, and the counts GET /stats
\* has made at the end of its loop, are those of one content the registry
\* has had since the call began.
C20_ConsistentView ==
    (rd.op \in {"getAllJobs", "get_stats"} /\ rd.step = "state"
        /\ rd.i > Len(transcode_requests)) =>
       \E S \in hist :
          IF rd.op = "getAllJobs"
          THEN \A k \in 1..Len(S) : rd.ret[k].d.state = S[k]
          ELSE /\ rd.counter_error = CountOf(S, ERROR)
               /\ rd.counter_completed = CountOf(S, COMPLETED)

\* a step of a query handler: of GET /jobs or GET /stats (they move rd), or
\* an answer of GET /jobs/{jobId} or GET /jobs/{jobId}/state
QueryStep ==
    \/ rd' # rd
    \/ reply' # reply /\ reply'.op \in {"getJob", "getStateJob"}

C22_WorkersIndependent ==
    \A i \in Live : thread[i].pc \notin {"done", "dead"} => ENABLED run(i)

\* the later-submitted job is Completed with its duration set while the
\* worker of the earlier-submitted one has not taken a step
C22_Witness ==
    \E a \in Live : \E b \in Live :
       /\ a < b
       /\ thread[a] = NewThread /\ tasks[a].state = WAITING
       /\ thread[b].pc = "done" /\ tasks[b].state = COMPLETED
       /\ tasks[b].duration # 0

\* ------------------------------------------- the polling helper functions
\* wait_for_pod_creation, wait_for_job_completion (da_circo_k8s_manager.py),
\* wait_for_ping and wait_for_ssh_to_be_ready (da_circo_vm_manager.py) are
\* the same loop around a different probe:
\*     timeout_start = time.time()
\*     while time.time() < timeout_start + timeout:
\*         time.sleep(retry_interval)
\*         <probe>
\*     return False
\* helper.elapsed is time.time() - timeout_start, in the unit of the
\* arguments.

\* largest timeout explored
MaxTimeout == 2
\* largest retry_interval explored
MaxRetry == 2
\* longest time a probe takes
MaxLatency == 2

ReadyFns == {"wait_for_pod_creation", "wait_for_ping"}

PollFns ==
    ReadyFns \cup {"wait_for_ssh_to_be_ready", "wait_for_job_completion"}

\* the condition the probed unit is in when the helper is called
UnitAtCall(fn) ==
    CASE fn = "wait_for_pod_creation" -> {"Pending", "Absent"}
      [] fn = "wait_for_ping" -> {"down", "up"}
      [] fn = "wait_for_ssh_to_be_ready" -> {"silent", "refused"}
      [] fn = "wait_for_job_completion" -> {"created"}

\* how the unit's condition evolves: a pod is scheduled, runs and ends; a
\* host comes up or goes down; a booting host first drops packets, then
\* refuses the port, then sshd answers and either refuses every
\* authentication (no key or password is offered) or lets the client in;
\* a job has no pod yet, then an active pod, then succeeds or fails
UnitAfter(u) ==
    CASE u = "Pending" -> {"Running", "Failed"}
      [] u = "Running" -> {"Succeeded", "Failed"}
      [] u = "down" -> {"up"}
      [] u = "up" -> {"down"}
      [] u = "silent" -> {"refused"}
      [] u = "refused" -> {"auth", "open"}
      [] u = "created" -> {"active"}
      [] u = "active" -> {"succeeded", "failed"}
      [] OTHER -> {}

\* the probe of each loop on a unit in condition u: "return" is
\* `return True`, "loop" the next test of the while, "raise" an exception
\* the function does not catch
Probe(fn, u) ==
    CASE fn = "wait_for_pod_creation" ->
            \* read_namespaced_pod(...); if resp.status.phase != 'Pending'
            IF u = "Absent" THEN "raise"
            ELSE IF u # "Pending" THEN "return" ELSE "loop"
      [] fn = "wait_for_ping" ->
            \* if testPing(host): return True
            IF u = "up" THEN "return" ELSE "loop"
      [] fn = "wait_for_ssh_to_be_ready" ->
            \* client.connect(...); except SSHException: return True;
            \* except NoValidConnectionsError: continue
            IF u = "auth" THEN "return"
            ELSE IF u = "silent" THEN "raise"
            ELSE "loop"
      [] fn = "wait_for_job_completion" ->
            \* read_namespaced_job_status(...).status.active == None
            IF u = "active" THEN "loop" ELSE "return"

\* the helper is called: its arguments, and the unit it will probe
Called(fn, timeout, retry_interval, u) ==
    [fn |-> fn, timeout |-> timeout, retry_interval |-> retry_interval,
     unit |-> u, pc |-> "test", elapsed |-> 0, began |-> 0, ret |-> FALSE,
     probes |-> {}]

WaitInit ==
    /\ now = T0
    /\ transcode_requests = <<>>
    /\ tasks = <<>>
    /\ thread = <<>>
    /\ pods = [n \in PodNames |-> "Absent"]
    /\ rd = Idle
    /\ reply = NoReply
    /\ served = 0
    /\ hist = {}
    /\ helper \in {Called(fn, to, ri, u) :
                      fn \in PollFns, to \in 0..MaxTimeout,
                      ri \in 0..MaxRetry, u \in {"Pending", "Absent", "down",
                         "up", "silent", "refused", "created"}}
    /\ helper.unit \in UnitAtCall(helper.fn)

JobManagerVars ==
    <<now, transcode_requests, tasks, thread, pods, rd, reply, served, hist>>

\* while time.time() < timeout_start + timeout: ... ; return False
wait_test ==
    /\ helper.pc = "test"
    /\ helper' = IF helper.elapsed < helper.timeout
                 THEN [helper EXCEPT !.pc = "sleep", !.began = helper.elapsed]
                 ELSE [helper EXCEPT !.pc = "returned", !.ret = FALSE]
    /\ UNCHANGED JobManagerVars

\* time.sleep(retry_interval)
wait_sleep ==
    /\ helper.pc = "sleep"
    /\ helper' = [helper EXCEPT !.pc = "probe",
                                !.elapsed = @ + helper.retry_interval]
    /\ UNCHANGED JobManagerVars

\* a variant whose probe answers the opposite (== instead of !=)
wait_probe_negated ==
    /\ helper.pc = "probe"
    /\ \E d \in 1..MaxLatency :
          LET out == Probe(helper.fn, helper.unit)
              p == [began |-> helper.began, at |-> helper.elapsed,
                    unit |-> helper.unit, out |-> out]
          IN  helper' = [helper EXCEPT
                 !.probes = @ \cup {p},
                 !.elapsed = @ + d,
                 !.pc = CASE out = "loop" -> "returned"
                          [] out = "return" -> "test"
                          [] out = "raise" -> "raised",
                 !.ret = (out = "loop")]
    /\ UNCHANGED JobManagerVars

\* the probe is made on the unit as it is now, and takes some time
wait_probe ==
    /\ helper.pc = "probe"
    /\ \E d \in 1..MaxLatency :
          LET out == Probe(helper.fn, helper.unit)
              p == [began |-> helper.began, at |-> helper.elapsed,
                    unit |-> helper.unit, out |-> out]
          IN  helper' = [helper EXCEPT
                 !.probes = @ \cup {p},
                 !.elapsed = @ + d,
                 !.pc = CASE out = "return" -> "returned"
                          [] out = "loop" -> "test"
                          [] out = "raise" -> "raised",
                 !.ret = (out = "return")]
    /\ UNCHANGED JobManagerVars

\* the unit changes condition while the helper waits
unit_changes ==
    /\ helper.pc \in {"test", "sleep", "probe"}
    /\ \E u \in UnitAfter(helper.unit) : helper' = [helper EXCEPT !.unit = u]
    /\ UNCHANGED JobManagerVars

wait ==
    \/ wait_test
    \/ wait_sleep
    \/ wait_probe

NextWait == wait \/ unit_changes

\* a call of a polling helper
WaitSpec == WaitInit /\ [][NextWait]_vars

\* the thread that called the helper keeps running
WaitFairSpec == WaitSpec /\ WF_vars(wait)

C24_SshReady ==
    (helper.fn = "wait_for_ssh_to_be_ready" /\ helper.pc = "returned"
        /\ \E p \in helper.probes : p.unit = "open") =>
       helper.ret

\* C25: wait_for_job_completion returns True only when a read has found the
\* job successfully completed, never for a job not yet started or failed.
C25_JobCompleted ==
    (helper.fn = "wait_for_job_completion" /\ helper.pc = "returned"
        /\ helper.ret) =>
       \E p \in helper.probes : p.unit = "succeeded"

\* the pod of job i was created: create_namespaced_pod returned
Created(i) ==
    "create" \in thread[i].calls /\ thread[i].raised # "create"

\* C26: when the worker of a job whose pod was created has ended (normal
\* finish, failed readiness read or failed attach), the pod-deletion call
\* has been issued for it.
C26_PodDeleted ==
    \A i \in Live :
       (thread[i].pc \in {"done", "dead"} /\ Created(i)) =>
          "delete" \in thread[i].calls

\* ------------------------------------------------ VirtualMachine (VM backend)
\* One VirtualMachine object used by one thread: create() and delete() run
\* to their end, or to the backend call that raises, without interleaving.
\* Servers and floating IPs are numbered in creation order; 0 is None.

\* number of create() calls explored
MaxCreates == 2
\* number of delete() calls explored
MaxDeletes == 3

\* VirtualMachine.__init__: nothing exists yet on the backend
NewVM(conn, floatingIpNetwork) ==
    [fn |-> "VirtualMachine", conn |-> conn,
     floatingIpNetwork |-> floatingIpNetwork,
     server |-> 0, fip |-> 0, ip |-> "None",
     creates |-> 0, deletes |-> 0,
     servers |-> 0,       \* the compute.create_server calls issued
     log |-> <<>>,        \* the backend deletions issued, in order
     returned |-> FALSE]  \* the last call returned (did not raise)

VMInit ==
    /\ now = T0
    /\ transcode_requests = <<>>
    /\ tasks = <<>>
    /\ thread = <<>>
    /\ pods = [n \in PodNames |-> "Absent"]
    /\ rd = Idle
    /\ reply = NoReply
    /\ served = 0
    /\ hist = {}
    /\ helper \in {NewVM(c, f) : c \in BOOLEAN, f \in BOOLEAN}

\* a variant of create() without the test of self.server: a second call
\* provisions a second server
VirtualMachine_create_again ==
    /\ helper.fn = "VirtualMachine"
    /\ helper.creates < MaxCreates
    /\ IF ~helper.conn
       THEN helper' = [helper EXCEPT !.creates = @ + 1, !.returned = TRUE]
       ELSE \E upto \in 0..4 :
               LET n == helper.servers + 1
                   fl == helper.floatingIpNetwork
               IN  helper' = [helper EXCEPT
                      !.creates = @ + 1,
                      !.servers = n,
                      !.server = IF upto >= 1 THEN n ELSE @,
                      !.ip = IF upto >= 4 /\ fl THEN "floating"
                             ELSE IF upto >= 2 THEN "fixed" ELSE @,
                      !.fip = IF upto >= 3 /\ fl THEN n ELSE @,
                      !.returned = (upto = 4 \/ (upto >= 2 /\ ~fl))]
    /\ UNCHANGED JobManagerVars

\* create(): `if not self.conn: return`, `if self.server: ... return`;
\* else compute.create_server, wait_for_server, the fixed address, then, if
\* requested, network.create_ip and add_floating_ip_to_server; upto is the
\* last of these calls that returns
VirtualMachine_create ==
    /\ helper.fn = "VirtualMachine"
    /\ helper.creates < MaxCreates
    /\ IF ~helper.conn \/ helper.server # 0
       THEN helper' = [helper EXCEPT !.creates = @ + 1, !.returned = TRUE]
       ELSE \E upto \in 0..4 :
               LET n == helper.servers + 1
                   fl == helper.floatingIpNetwork
               IN  helper' = [helper EXCEPT
                      !.creates = @ + 1,
                      !.servers = n,
                      !.server = IF upto >= 1 THEN n ELSE 0,
                      !.ip = IF upto >= 4 /\ fl THEN "floating"
                             ELSE IF upto >= 2 THEN "fixed" ELSE @,
                      !.fip = IF upto >= 3 /\ fl THEN n ELSE @,
                      !.returned = (upto = 4 \/ (upto >= 2 /\ ~fl))]
    /\ UNCHANGED JobManagerVars

\* a variant of delete() that keeps self.server after deleting the server
VirtualMachine_delete_keep ==
    /\ helper.fn = "VirtualMachine"
    /\ helper.deletes < MaxDeletes
    /\ \/ /\ helper.server # 0
          /\ helper' = [helper EXCEPT
                !.deletes = @ + 1,
                !.log = Append(@, <<"server", helper.server>>),
                !.returned = FALSE]
       \/ /\ helper.fip # 0
          /\ helper' = [helper EXCEPT
                !.deletes = @ + 1,
                !.log = (IF helper.server # 0
                         THEN Append(@, <<"server", helper.server>>) ELSE @)
                        \o <<<<"ip", helper.fip>>>>,
                !.returned = FALSE]
       \/ helper' = [helper EXCEPT
                !.deletes = @ + 1,
                !.log = (IF helper.server # 0
                         THEN Append(@, <<"server", helper.server>>) ELSE @)
                        \o (IF helper.fip # 0
                            THEN <<<<"ip", helper.fip>>>> ELSE <<>>),
                !.fip = 0, !.ip = "None",
                !.returned = TRUE]
    /\ UNCHANGED JobManagerVars

\* delete(): if self.server: compute.delete_server; self.server = None;
\* if self.fip: network.delete_ip; self.fip = None; self.ip = None.
\* First disjunct: delete_server raises; second: delete_ip raises; third:
\* the call returns.
VirtualMachine_delete ==
    /\ helper.fn = "VirtualMachine"
    /\ helper.deletes < MaxDeletes
    /\ \/ /\ helper.server # 0
          /\ helper' = [helper EXCEPT
                !.deletes = @ + 1,
                !.log = Append(@, <<"server", helper.server>>),
                !.returned = FALSE]
       \/ /\ helper.fip # 0
          /\ helper' = [helper EXCEPT
                !.deletes = @ + 1,
                !.log = (IF helper.server # 0
                         THEN Append(@, <<"server", helper.server>>) ELSE @)
                        \o <<<<"ip", helper.fip>>>>,
                !.server = 0,
                !.returned = FALSE]
       \/ helper' = [helper EXCEPT
                !.deletes = @ + 1,
                !.log = (IF helper.server # 0
                         THEN Append(@, <<"server", helper.server>>) ELSE @)
                        \o (IF helper.fip # 0
                            THEN <<<<"ip", helper.fip>>>> ELSE <<>>),
                !.server = 0, !.fip = 0, !.ip = "None",
                !.returned = TRUE]
    /\ UNCHANGED JobManagerVars

NextVM == VirtualMachine_create \/ VirtualMachine_delete

\* the life of one VirtualMachine object
VMSpec == VMInit /\ [][NextVM]_vars

\* C27: after a delete() that returns, server, fip and ip are None and the
\* call has issued exactly one deletion for the server it held and one for
\* the floating IP it held; on an object holding neither (as after a delete
\* that returned) it issues no deletion and leaves the object unchanged.
C27_DeleteIdempotent ==
    [][(helper'.deletes # helper.deletes /\ helper'.returned) =>
          /\ helper'.server = 0 /\ helper'.fip = 0 /\ helper'.ip = "None"
          /\ helper'.log =
                helper.log
                \o (IF helper.server # 0
                    THEN <<<<"server", helper.server>>>> ELSE <<>>)
                \o (IF helper.fip # 0
                    THEN <<<<"ip", helper.fip>>>> ELSE <<>>)
          /\ (helper.server = 0 /\ helper.fip = 0) =>
                /\ helper'.log = helper.log
                /\ helper'.ip = helper.ip]_vars

\* a VM with a floating IP was created and deleted by one delete() (two
\* deletions), and a second delete() has returned without issuing any
C27_Witness ==
    /\ helper.fn = "VirtualMachine"
    /\ helper.creates = 1 /\ helper.deletes = 2 /\ helper.returned
    /\ helper.log = <<<<"server", 1>>, <<"ip", 1>>>>
    /\ helper.server = 0 /\ helper.fip = 0 /\ helper.ip = "None"

\* C28: two jobs with distinct ids have pods of distinct names, and every
\* step of a job's worker that acts on the cluster (create, delete) acts on
\* the pod named after that job's id and on no other.
C28_UnitName ==
    /\ [](\A i \in Live : \A k \in Live :
             tasks[i].id_job # tasks[k].id_job => PodOf(i) # PodOf(k))
    /\ [][\A i \in Live :
             thread'[i] # thread[i] =>
                \A n \in PodNames :
                   pods'[n] # pods[n] => n = pod_name(tasks[i].id_job)]_vars

\* two jobs with distinct ids have their pods on the cluster at the same
\* time, the worker of one polling, the other attached
C28_Witness ==
    \E i \in Live : \E k \in Live :
       /\ tasks[i].id_job # tasks[k].id_job
       /\ pods[PodOf(i)] = "Pending" /\ thread[i].pc \in Polling
       /\ pods[PodOf(k)] = "Running" /\ thread[k].pc = "attached"

\* C29: the step in which the connection to the cluster fails sets the
\* job's state to Error, leaves its duration and the cluster untouched and
\* ends the worker; a job in state Error has made no backend call.
C29_ConnectFailure ==
    /\ [][\A i \in Live :
             (thread[i].pc = "connect" /\ thread'[i].pc = "done") =>
                /\ tasks'[i].state = ERROR
                /\ tasks'[i].duration = tasks[i].duration
                /\ pods' = pods]_vars
    /\ [](\A i \in Live :
             tasks[i].state = ERROR =>
                /\ thread[i].pc = "done"
                /\ thread[i].calls = {}
                /\ tasks[i].duration = 0)

\* a job is in state Error after a failed connection, with no pod of its
\* name on the cluster, while another job has its pod running
C29_Witness ==
    \E i \in Live : \E k \in Live :
       /\ tasks[i].state = ERROR /\ thread[i].pc = "done"
       /\ pods[PodOf(i)] = "Absent"
       /\ pods[PodOf(k)] = "Running"

\* C30: a worker makes the attach call only in the step after a read that
\* found its pod not Pending, and the delete call only after the attach
\* call returned, the workload having ended; so the calls made are always
\* a prefix of create, read, attach, delete.
C30_ProtocolOrder ==
    /\ [][\A i \in Live :
             /\ (thread'[i].pc = "attach" /\ thread[i].pc # "attach") =>
                   /\ thread[i].pc = "read"
                   /\ pods[PodOf(i)] \notin {"Pending", "Absent"}
             /\ (thread'[i].pc = "delete" /\ thread[i].pc # "delete") =>
                   /\ thread[i].pc = "attached"
                   /\ thread'[i].raised = "none"
                   /\ pods[PodOf(i)] \notin {"Pending", "Running"}]_vars
    /\ [](\A i \in Live :
             thread[i].calls \in
                {{}, {"create"}, {"create", "read"},
                 {"create", "read", "attach"}, Calls})

\* a worker has polled a Pending pod, attached to it once it was running,
\* and is about to delete it after the workload ended
C30_Witness ==
    \E i \in Live :
       /\ thread[i].pc = "delete"
       /\ thread[i].calls = {"create", "read", "attach"}
       /\ pods[PodOf(i)] = "Succeeded"

\* C31: a create() on an object that has no connection or whose server is
\* already set returns without a compute.create_server call and leaves
\* server, fip and ip unchanged; a create_server call is issued only by an
\* object that holds no server.
C31_CreateOnce ==
    [][helper'.creates # helper.creates =>
          /\ (~helper.conn \/ helper.server # 0) =>
                /\ helper'.returned
                /\ helper'.servers = helper.servers
                /\ helper'.server = helper.server
                /\ helper'.fip = helper.fip
                /\ helper'.ip = helper.ip
                /\ helper'.log = helper.log
          /\ helper'.servers # helper.servers =>
                helper.conn /\ helper.server = 0]_vars

\* a second create() has returned on an object whose first create()
\* provisioned a server with its floating IP: still one create_server call
C31_Witness ==
    /\ helper.fn = "VirtualMachine"
    /\ helper.creates = 2 /\ helper.servers = 1 /\ helper.deletes = 0
    /\ helper.server = 1 /\ helper.fip = 1 /\ helper.ip = "floating"
    /\ helper.returned

\* ------------------------------------ VirtualMachine.create, several workers
\* Each worker calls create() on its own VirtualMachine; the objects share
\* the controller (its security groups and its keypairs) and, having the
\* same keypair name, the local key files.  No lock is taken: the workers
\* interleave between any two calls.  Keypairs are numbered in creation
\* order; 0 is "none" (no keypair of that name, no file).

\* number of workers calling create()
MaxWorkers == 2

SetupWorkers == 1..MaxWorkers

GroupNames == {"enable_ICMP", "enable_SSH"}

\* the controller and the key files when the first create() begins: with
\* the keypair and its files, or without
Setup(had) ==
    [fn |-> "create",
     pc |-> [w \in SetupWorkers |-> "find_ICMP"],
     key |-> [w \in SetupWorkers |-> 0],   \* key = c.create_keypair(...)
     groups |-> [g \in GroupNames |-> 0],  \* groups of each name
     keypair |-> IF had THEN 1 ELSE 0,     \* the keypair on the controller
     key_file |-> IF had THEN 1 ELSE 0,    \* whose private key the file holds
     pub_key_file |-> IF had THEN 1 ELSE 0,
     minted |-> IF had THEN 1 ELSE 0]

SetupInit ==
    /\ now = T0
    /\ transcode_requests = <<>>
    /\ tasks = <<>>
    /\ thread = <<>>
    /\ pods = [n \in PodNames |-> "Absent"]
    /\ rd = Idle
    /\ reply = NoReply
    /\ served = 0
    /\ hist = {}
    /\ helper \in {Setup(had) : had \in BOOLEAN}

\* worker w goes on at pc p
At(w, p) == [helper EXCEPT !.pc[w] = p]

\* create_security_groups_if_not_existing: for each of the two names,
\* `if find_security_group(group_name) == None:` and, in a later call,
\* `create_security_group(name=group_name)`
create_security_groups_if_not_existing(w) ==
    /\ helper.fn = "create"
    /\ \/ /\ helper.pc[w] = "find_ICMP"
          /\ helper' = At(w, IF helper.groups["enable_ICMP"] = 0
                             THEN "create_ICMP" ELSE "find_SSH")
       \/ /\ helper.pc[w] = "create_ICMP"
          /\ helper' = [At(w, "find_SSH") EXCEPT
                           !.groups["enable_ICMP"] = @ + 1]
       \/ /\ helper.pc[w] = "find_SSH"
          /\ helper' = At(w, IF helper.groups["enable_SSH"] = 0
                             THEN "create_SSH" ELSE "find_keypair")
       \/ /\ helper.pc[w] = "create_SSH"
          /\ helper' = [At(w, "find_keypair") EXCEPT
                           !.groups["enable_SSH"] = @ + 1]
    /\ UNCHANGED JobManagerVars

\* create_keypair_if_not_existing, one call or file access per step:
\*   if c.find_keypair(key_name) and os.path.isfile(key_file): return
\*   (the second `if` only passes)
\*   if (c.find_keypair(key_name) == None) or not os.path.isfile(key_file):
\*       c.delete_keypair(key_name, ignore_missing=True)
\*       key = c.create_keypair(name=key_name)   (refused when one exists)
\*       write key.private_key to key_file, key.public_key to pub_key_file
\*       return
create_keypair_if_not_existing(w) ==
    /\ helper.fn = "create"
    /\ \/ /\ helper.pc[w] = "find_keypair"
          /\ helper' = At(w, IF helper.keypair # 0
                             THEN "isfile" ELSE "find_keypair_again")
       \/ /\ helper.pc[w] = "isfile"
          /\ helper' = At(w, IF helper.key_file # 0
                             THEN "done" ELSE "find_keypair_again")
       \/ /\ helper.pc[w] = "find_keypair_again"
          /\ helper' = At(w, IF helper.keypair = 0
                             THEN "delete_keypair" ELSE "isfile_again")
       \/ /\ helper.pc[w] = "isfile_again"
          /\ helper' = At(w, IF helper.key_file = 0
                             THEN "delete_keypair" ELSE "done")
       \/ /\ helper.pc[w] = "delete_keypair"
          /\ helper' = [At(w, "create_keypair") EXCEPT !.keypair = 0]
       \/ /\ helper.pc[w] = "create_keypair"
          /\ helper' = IF helper.keypair # 0
                       THEN At(w, "raised")
                       ELSE [At(w, "write_key_file") EXCEPT
                                !.minted = @ + 1,
                                !.keypair = helper.minted + 1,
                                !.key[w] = helper.minted + 1]
       \/ /\ helper.pc[w] = "write_key_file"
          /\ helper' = [At(w, "write_pub_key_file") EXCEPT
                           !.key_file = helper.key[w]]
       \/ /\ helper.pc[w] = "write_pub_key_file"
          /\ helper' = [At(w, "done") EXCEPT !.pub_key_file = helper.key[w]]
    /\ UNCHANGED JobManagerVars

NextSetup ==
    \E w \in SetupWorkers :
       \/ create_security_groups_if_not_existing(w)
       \/ create_keypair_if_not_existing(w)

\* the workers' create() calls up to the return of
\* create_keypair_if_not_existing
SetupSpec == SetupInit /\ [][NextSetup]_vars

\* C32: there is never more than one security group of a name.
C32_GroupsOnce ==
    helper.fn = "create" => \A g \in GroupNames : helper.groups[g] <= 1

\* C33: once create_keypair_if_not_existing has returned for a worker, the
\* keypair is on the controller and key_file holds its private key.
C33_KeypairStored ==
    helper.fn = "create" =>
       \A w \in SetupWorkers :
          helper.pc[w] = "done" =>
             helper.keypair # 0 /\ helper.key_file = helper.keypair

\* ------------------------------------------------- K8sManager.execute_job
\* Names are sequences of characters, so that `job_name in pod_name` is the
\* substring test of the code.  <<>> is None (and the empty string "").

\* pods of other jobs in the namespace when execute_job begins
MaxPods == 2

\* polls of the job status before wait_for_job_completion times out
MaxPolls == 2

Namespaces == {"default", "ns1"}

ManifestNames == {<<"j">>, <<"j", "2">>}

OtherJobs == {<<"a", "j">>, <<"k">>}

\* the pod the job controller makes for a job: the job's name and a suffix
PodOfJob(job) == job \o <<"-", "x">>

\* a in b, for two strings
In(a, b) ==
    \E k \in 0..(Len(b) - Len(a)) : SubSeq(b, k + 1, k + Len(a)) = a

\* pods of other jobs; their container has the name of their own job or,
\* made from the same manifest under another job name, of this one
OtherPods(container) ==
    UNION {{[name |-> PodOfJob(o), container |-> c] :
               c \in {o} \cup {container}} : o \in OtherJobs}

PodLists(container) ==
    {s \in UNION {[1..n -> OtherPods(container)] : n \in 0..MaxPods} :
        \A a, b \in DOMAIN s : a # b => s[a].name # s[b].name}

ExecuteJob(name, job_name, namespace, other, items) ==
    [fn |-> "execute_job",
     manifest |-> [name |-> name, container |-> name],
     job_name |-> job_name,
     namespace |-> namespace,
     pc |-> "create",
     polls |-> 0,
     completed |-> "None",   \* what wait_for_job_completion returned
     res |-> <<>>,           \* the pod whose log get_job_output returned
     log |-> <<>>,           \* the API calls on jobs and pod logs
     jobs |-> [ns \in Namespaces |->
                  IF ns = "default" THEN "absent" ELSE other],
     pods |-> [ns \in Namespaces |->
                  IF ns = "default" THEN items ELSE <<>>]]

ExecuteJobInit ==
    /\ now = T0
    /\ transcode_requests = <<>>
    /\ tasks = <<>>
    /\ thread = <<>>
    /\ pods = [n \in PodNames |-> "Absent"]
    /\ rd = Idle
    /\ reply = NoReply
    /\ served = 0
    /\ hist = {}
    /\ helper \in {ExecuteJob(m, j, ns, other, items) :
                      m \in ManifestNames, j \in {<<>>, <<"j">>},
                      ns \in Namespaces, other \in {"absent", "active"},
                      items \in UNION {PodLists(c) : c \in ManifestNames}}

\* a call of the API: the operation, the namespace it goes to and the job
\* it is made for
ApiCall(op, namespace, name) ==
    [op |-> op, namespace |-> namespace, name |-> name]

\* an ApiException leaves execute_job
Raised(op, namespace, name) ==
    [helper EXCEPT !.pc = "raised",
                   !.log = Append(@, ApiCall(op, namespace, name))]

\* lines 187-196: the job name, then create_namespaced_job
execute_job_create ==
    /\ helper.fn = "execute_job"
    /\ helper.pc = "create"
    /\ LET job_name == IF helper.job_name # <<>>
                       THEN helper.job_name ELSE helper.manifest.name
           op == "create_namespaced_job"
       IN  helper' =
             IF helper.jobs["default"] # "absent"
             THEN [Raised(op, "default", job_name)
                      EXCEPT !.job_name = job_name,
                             !.manifest.name = job_name]
             ELSE [helper EXCEPT
                      !.job_name = job_name,
                      !.manifest.name = job_name,
                      !.jobs["default"] = "pending",
                      !.log = Append(@, ApiCall(op, "default", job_name)),
                      !.pc = "wait"]
    /\ UNCHANGED JobManagerVars

\* one turn of the loop of wait_for_job_completion: the sleep and the
\* read of status.active in the caller's namespace; False after the last
execute_job_wait ==
    /\ helper.fn = "execute_job"
    /\ helper.pc = "wait"
    /\ LET ns == helper.namespace
           op == "read_namespaced_job_status"
       IN  helper' =
             IF helper.polls >= MaxPolls
             THEN [helper EXCEPT !.completed = "False", !.pc = "read"]
             ELSE IF helper.jobs[ns] = "absent"
             THEN Raised(op, ns, helper.job_name)
             ELSE [helper EXCEPT
                      !.polls = @ + 1,
                      !.log = Append(@, ApiCall(op, ns, helper.job_name)),
                      !.completed = IF helper.jobs[ns] # "active"
                                    THEN "True" ELSE @,
                      !.pc = IF helper.jobs[ns] # "active"
                             THEN "read" ELSE @]
    /\ UNCHANGED JobManagerVars

\* the loop of get_job_output over pods.items
RECURSIVE PodName(_, _, _)
PodName(items, job_name, last) ==
    IF items = <<>> THEN last
    ELSE IF In(job_name, Head(items).name) THEN Head(items).name
    ELSE PodName(Tail(items), job_name, Head(items).name)

\* get_job_output(job_name): namespace and container_name at their
\* defaults; the log is refused for a pod or a container that is not there
get_job_output ==
    /\ helper.fn = "execute_job"
    /\ helper.pc = "read"
    /\ LET items == helper.pods["default"]
           found == PodName(items, helper.job_name, <<>>)
           op == "read_namespaced_pod_log"
       IN  helper' =
             IF \E k \in DOMAIN items :
                   /\ items[k].name = found
                   /\ items[k].container = helper.job_name
             THEN [helper EXCEPT
                      !.res = found,
                      !.log = Append(@, ApiCall(op, "default",
                                                helper.job_name)),
                      !.pc = "delete"]
             ELSE Raised(op, "default", helper.job_name)
    /\ UNCHANGED JobManagerVars

\* delete_job(job_name): namespace at its default
delete_job ==
    /\ helper.fn = "execute_job"
    /\ helper.pc = "delete"
    /\ LET op == "delete_namespaced_job"
       IN  helper' =
             IF helper.jobs["default"] = "absent"
             THEN Raised(op, "default", helper.job_name)
             ELSE [helper EXCEPT
                      !.jobs["default"] = "absent",
                      !.log = Append(@, ApiCall(op, "default",
                                                helper.job_name)),
                      !.pc = "returned"]
    /\ UNCHANGED JobManagerVars

execute_job ==
    \/ execute_job_create
    \/ execute_job_wait
    \/ get_job_output
    \/ delete_job

\* the job controller starts the pod of a pending job
job_starts(ns) ==
    /\ helper.fn = "execute_job"
    /\ helper.pc # "create"
    /\ helper.jobs[ns] = "pending"
    /\ \E k \in 0..Len(helper.pods[ns]) :
          LET items == helper.pods[ns]
              pod == [name |-> PodOfJob(helper.job_name),
                      container |-> helper.manifest.container]
          IN  helper' = [helper EXCEPT
                 !.jobs[ns] = "active",
                 !.pods[ns] = SubSeq(items, 1, k) \o <<pod>>
                                 \o SubSeq(items, k + 1, Len(items))]
    /\ UNCHANGED JobManagerVars

\* the pod of the job succeeds or fails
job_ends(ns) ==
    /\ helper.fn = "execute_job"
    /\ helper.pc # "create"
    /\ helper.jobs[ns] = "active"
    /\ helper' = [helper EXCEPT !.jobs[ns] = "finished"]
    /\ UNCHANGED JobManagerVars

\* propagation_policy='Background': the pods of a deleted job go later
collect(ns) ==
    /\ helper.fn = "execute_job"
    /\ helper.jobs[ns] = "absent"
    /\ \E k \in DOMAIN helper.pods[ns] :
          /\ helper.pods[ns][k].name = PodOfJob(helper.job_name)
          /\ helper' = [helper EXCEPT
                !.pods[ns] = SubSeq(@, 1, k - 1) \o SubSeq(@, k + 1, Len(@))]
    /\ UNCHANGED JobManagerVars

NextExecuteJob ==
    \/ execute_job
    \/ \E ns \in Namespaces : job_starts(ns) \/ job_ends(ns) \/ collect(ns)

ExecuteJobSpec == ExecuteJobInit /\ [][NextExecuteJob]_vars

\* C34: the output is read and the job deleted only when
\* wait_for_job_completion has returned True.
C34_ReadAfterCompletion ==
    helper.fn = "execute_job" =>
       \A k \in DOMAIN helper.log :
          helper.log[k].op \in {"read_namespaced_pod_log",
                                "delete_namespaced_job"} =>
             helper.completed = "True"

\* C35: every call of execute_job is on the job name in the namespace the
\* caller passed.
C35_SameNamespace ==
    helper.fn = "execute_job" =>
       \A k \in DOMAIN helper.log :
          /\ helper.log[k].namespace = helper.namespace
          /\ helper.log[k].name = helper.job_name

\* C36: the log get_job_output returns is that of the pod made for
\* job_name.
C36_OwnPodLog ==
    helper.fn = "execute_job" =>
       (helper.res # <<>> => helper.res = PodOfJob(helper.job_name))

\* --------------------------------------------- transcode.py: Movie, -b
\* transcode_constants is not among the sources; the range is the one the
\* job manager documents for a bitrate.
MIN_BITRATE == 500

MAX_BITRATE == 8000

\* how far around each end of the range the requested values go
Margin == 2

Requested ==
    ((MIN_BITRATE - Margin)..(MIN_BITRATE + Margin))
       \cup ((MAX_BITRATE - Margin)..(MAX_BITRATE + Margin))
       \cup {-1, 0, 4000, 10000}

Presets == {"ultrafast", "fast", "slow", ""}

DigitChars == <<"0", "1", "2", "3", "4", "5", "6", "7", "8", "9">>

\* str(n), n an int: the decimal digits, a minus sign before them
RECURSIVE Digits(_)
Digits(n) ==
    IF n < 10 THEN <<DigitChars[n + 1]>>
    ELSE Digits(n \div 10) \o <<DigitChars[(n % 10) + 1]>>

str(n) == IF n < 0 THEN <<"-">> \o Digits(-n) ELSE Digits(n)

IsDigits(s) ==
    /\ s # <<>>
    /\ \A k \in DOMAIN s : \E d \in 1..10 : DigitChars[d] = s[k]

RECURSIVE Number(_)
Number(s) ==
    IF s = <<>> THEN 0
    ELSE 10 * Number(SubSeq(s, 1, Len(s) - 1))
            + (CHOOSE d \in 0..9 : DigitChars[d + 1] = s[Len(s)])

\* int(value) of a string is defined (else ValueError) ...
IsInt(s) ==
    IF s # <<>> /\ Head(s) = "-" THEN IsDigits(Tail(s)) ELSE IsDigits(s)

\* ... and is the number the string reads as
int(s) == IF Head(s) = "-" THEN 0 - Number(Tail(s)) ELSE Number(s)

\* the kbps that `-b:v <bitrate>` asks of the encoder: the number before
\* the final k; -1 for a text that is not of that form
Kbps(bitrate) ==
    IF /\ Len(bitrate) >= 2
       /\ bitrate[Len(bitrate)] = "k"
       /\ IsDigits(SubSeq(bitrate, 1, Len(bitrate) - 1))
    THEN Number(SubSeq(bitrate, 1, Len(bitrate) - 1))
    ELSE -1

\* the command-line text of -b (number: what it was written for, -1 with
\* text "x" for a text that is no number) and the arguments of Movie()
Transcode(n, text, target_bitrate, preset) ==
    [fn |-> "transcode",
     number |-> n, value |-> text,
     checked |-> "None", ivalue |-> 0,
     target_bitrate |-> target_bitrate, preset |-> preset,
     movie |-> "None",
     movie_preset |-> "None", movie_bitrate |-> <<>>]

TranscodeInit ==
    /\ now = T0
    /\ transcode_requests = <<>>
    /\ tasks = <<>>
    /\ thread = <<>>
    /\ pods = [n \in PodNames |-> "Absent"]
    /\ rd = Idle
    /\ reply = NoReply
    /\ served = 0
    /\ hist = {}
    /\ helper \in
          {Transcode(n, str(n), b, p) :
              n \in Requested, b \in Requested, p \in Presets}
          \cup {Transcode(-1, t, b, p) :
                  t \in {<<"x">>, <<>>}, b \in Requested, p \in Presets}

\* Movie.__init__ with out-of-range bitrates set to the maximum
Movie_to_max ==
    /\ helper.fn = "transcode"
    /\ helper.movie = "None"
    /\ \E upto \in {"connect", "get_movie", "return"} :
          IF upto = "connect"
          THEN helper' = [helper EXCEPT !.movie = "raised"]
          ELSE helper' = [helper EXCEPT
                  !.movie = IF upto = "return" THEN "constructed"
                            ELSE "raised",
                  !.movie_preset =
                      IF helper.preset \notin {"ultrafast", "fast"}
                      THEN "fast" ELSE helper.preset,
                  !.movie_bitrate =
                      IF \/ helper.target_bitrate > MAX_BITRATE
                         \/ helper.target_bitrate < MIN_BITRATE
                      THEN str(MAX_BITRATE) \o <<"k">>
                      ELSE str(helper.target_bitrate) \o <<"k">>]
    /\ UNCHANGED JobManagerVars

\* Movie.__init__: openstack.connect (may raise), the preset, the
\* bitrate, get_movie (may raise), the output name
Movie ==
    /\ helper.fn = "transcode"
    /\ helper.movie = "None"
    /\ \E upto \in {"connect", "get_movie", "return"} :
          IF upto = "connect"
          THEN helper' = [helper EXCEPT !.movie = "raised"]
          ELSE helper' = [helper EXCEPT
                  !.movie = IF upto = "return" THEN "constructed"
                            ELSE "raised",
                  !.movie_preset =
                      IF helper.preset \notin {"ultrafast", "fast"}
                      THEN "fast" ELSE helper.preset,
                  !.movie_bitrate =
                      IF \/ helper.target_bitrate > MAX_BITRATE
                         \/ helper.target_bitrate < MIN_BITRATE
                      THEN str(MIN_BITRATE) \o <<"k">>
                      ELSE str(helper.target_bitrate) \o <<"k">>]
    /\ UNCHANGED JobManagerVars

\* check_bitrate(value), value the text argparse hands over
check_bitrate ==
    /\ helper.fn = "transcode"
    /\ helper.checked = "None"
    /\ helper' =
          IF ~IsInt(helper.value)
          THEN [helper EXCEPT !.checked = "raised"]
          ELSE LET ivalue == int(helper.value)
               IN  IF ivalue < MIN_BITRATE
                   THEN [helper EXCEPT !.checked = "raised"]
                   ELSE IF ivalue > MAX_BITRATE
                   THEN [helper EXCEPT !.checked = "raised"]
                   ELSE [helper EXCEPT !.checked = "returned",
                                       !.ivalue = ivalue]
    /\ UNCHANGED JobManagerVars

NextTranscode == Movie \/ check_bitrate

TranscodeSpec == TranscodeInit /\ [][NextTranscode]_vars

InRange(n) == MIN_BITRATE <= n /\ n <= MAX_BITRATE

\* C37: a constructed Movie has the preset asked for when that is
\* ultrafast or fast and fast otherwise, and asks the encoder for the
\* requested kbps when they lie in [MIN_BITRATE, MAX_BITRATE] and for
\* MIN_BITRATE otherwise; check_bitrate returns the number of its argument
\* when it lies in that range and raises for every other argument.
C37_MovieParameters ==
    helper.fn = "transcode" =>
       /\ helper.movie = "constructed" =>
             /\ helper.movie_preset \in {"ultrafast", "fast"}
             /\ helper.preset \in {"ultrafast", "fast"} =>
                   helper.movie_preset = helper.preset
             /\ helper.preset \notin {"ultrafast", "fast"} =>
                   helper.movie_preset = "fast"
             /\ Kbps(helper.movie_bitrate) =
                   IF InRange(helper.target_bitrate)
                   THEN helper.target_bitrate ELSE MIN_BITRATE
       /\ helper.checked = "returned" =>
             InRange(helper.number) /\ helper.ivalue = helper.number
       /\ helper.checked = "raised" => ~InRange(helper.number)

\* a Movie made with a bitrate above the range and a preset that is
\* neither of the two, and an argument of -b at the upper end accepted
C37_Witness ==
    /\ helper.fn = "transcode"
    /\ helper.movie = "constructed"
    /\ helper.target_bitrate = MAX_BITRATE + 1
    /\ helper.preset = "slow"
    /\ helper.movie_preset = "fast"
    /\ Kbps(helper.movie_bitrate) = MIN_BITRATE
    /\ helper.checked = "returned"
    /\ helper.ivalue = MAX_BITRATE

====
